---- MODULE Spec2Model ----
\* A model of mdmv (github.com/wormi4ok/mdmv): moving Markdown files together
\* with the images they reference.  Strings are sequences of one-character
\* strings, so that the path, template, glob and regexp operations of the
\* program are computed character by character as the Go code computes them.
EXTENDS Naturals, Integers, Sequences, FiniteSets, TLC

\* ------------------------------------------------------------------------
\* Strings (Go: strings, path/filepath)
\* ------------------------------------------------------------------------

\* The characters that occur in the model, in byte order (Go compares strings
\* byte-wise; sort.StringSlice in cleanUp relies on it).
ByteOrder ==
    << " ", "!", "#", "%", "(", ")", "*", "-", ".", "/",
       "0", "1", "2", "3", "4", "5", "6", "7", "8", "9",
       "?",
       "A", "B", "C", "D", "E", "F", "G", "H", "I", "J", "K", "L", "M",
       "N", "O", "P", "Q", "R", "S", "T", "U", "V", "W", "X", "Y", "Z",
       "[", "\\", "]", "^", "_",
       "a", "b", "c", "d", "e", "f", "g", "h", "i", "j", "k", "l", "m",
       "n", "o", "p", "q", "r", "s", "t", "u", "v", "w", "x", "y", "z" >>

Rank(c) ==
    CHOOSE i \in DOMAIN ByteOrder : ByteOrder[i] = c

Digits ==
    {"0", "1", "2", "3", "4", "5", "6", "7", "8", "9"}

UpperCase ==
    << "A", "B", "C", "D", "E", "F", "G", "H", "I", "J", "K", "L", "M",
       "N", "O", "P", "Q", "R", "S", "T", "U", "V", "W", "X", "Y", "Z" >>

LowerCase ==
    << "a", "b", "c", "d", "e", "f", "g", "h", "i", "j", "k", "l", "m",
       "n", "o", "p", "q", "r", "s", "t", "u", "v", "w", "x", "y", "z" >>

Range(s) ==
    {s[i] : i \in DOMAIN s}

MaxOf(S) ==
    CHOOSE x \in S : \A y \in S : y <= x

MinOf(S) ==
    CHOOSE x \in S : \A y \in S : x <= y

MaxOrZero(S) ==
    IF S = {} THEN 0 ELSE MaxOf(S)

MinOrZero(S) ==
    IF S = {} THEN 0 ELSE MinOf(S)

\* The decimal digits of a positive integer (fmt.Sprintf "%d").
RECURSIVE Itoa(_)
Itoa(n) ==
    LET d == <<"0", "1", "2", "3", "4", "5", "6", "7", "8", "9">>[(n % 10) + 1]
    IN  IF n < 10 THEN <<d>> ELSE Append(Itoa(n \div 10), d)

\* strings.ToLower on the model's alphabet
LowerChar(c) ==
    IF c \in Range(UpperCase)
    THEN LowerCase[CHOOSE i \in DOMAIN UpperCase : UpperCase[i] = c]
    ELSE c

ToLower(s) ==
    [i \in DOMAIN s |-> LowerChar(s[i])]

\* byte-wise s < t
StrLess(s, t) ==
    \E i \in 1..(Len(t)) :
        /\ \A j \in 1..(i - 1) : j <= Len(s) /\ s[j] = t[j]
        /\ \/ i = Len(s) + 1
           \/ i <= Len(s) /\ Rank(s[i]) < Rank(t[i])

HasPrefixAt(s, i, sub) ==
    /\ i + Len(sub) - 1 <= Len(s)
    /\ \A j \in 1..Len(sub) : s[i + j - 1] = sub[j]

\* strings.Index: the first position (from 1) of sub in s, 0 when there is none
Index(s, sub) ==
    MinOrZero({i \in 1..(Len(s) + 1) : HasPrefixAt(s, i, sub)})

\* strings.Contains
Contains(s, sub) ==
    Index(s, sub) # 0

\* strings.LastIndex of one character, 0 when there is none
LastIndexChar(s, c) ==
    MaxOrZero({i \in DOMAIN s : s[i] = c})

Tail2(s, i) ==
    SubSeq(s, i, Len(s))

\* strings.ReplaceAll(s, old, new) for a one-character old
ReplaceAllChar(s, old, new) ==
    [i \in DOMAIN s |-> IF s[i] = old THEN new ELSE s[i]]

\* strings.Replace(s, old, new, 1): only the first occurrence is replaced
ReplaceAt(s, i, n, new) ==
    IF i = 0 THEN s
    ELSE SubSeq(s, 1, i - 1) \o new \o Tail2(s, i + n)

ReplaceFirst(s, old, new) ==
    ReplaceAt(s, Index(s, old), Len(old), new)

\* strings.TrimLeft(s, cutset)
RECURSIVE TrimLeft(_, _)
TrimLeft(s, cutset) ==
    IF s # <<>> /\ Head(s) \in cutset THEN TrimLeft(Tail(s), cutset) ELSE s

\* strings.TrimSuffix
TrimSuffix(s, suffix) ==
    IF Len(suffix) <= Len(s) /\ HasPrefixAt(s, Len(s) - Len(suffix) + 1, suffix)
    THEN SubSeq(s, 1, Len(s) - Len(suffix))
    ELSE s

\* the elements of s between separators "/": acc holds the elements read
\* up to position i, the last of them still open
RECURSIVE SplitAt(_, _, _)
SplitAt(s, i, acc) ==
    IF i > Len(s) THEN acc
    ELSE IF s[i] = "/" THEN SplitAt(s, i + 1, Append(acc, <<>>))
    ELSE SplitAt(s, i + 1, [acc EXCEPT ![Len(acc)] = Append(@, s[i])])

SplitPath(s) ==
    SplitAt(s, 1, <<<<>>>>)

RECURSIVE JoinElems(_)
JoinElems(elems) ==
    IF elems = <<>> THEN <<>>
    ELSE IF Len(elems) = 1 THEN elems[1]
    ELSE elems[1] \o <<"/">> \o JoinElems(Tail(elems))

\* filepath.Clean, steps 2-4: "." elements dropped, "x/.." pairs dropped,
\* ".." dropped at the start of a rooted path
RECURSIVE CleanElems(_, _, _)
CleanElems(elems, out, rooted) ==
    IF elems = <<>> THEN out
    ELSE LET e == Head(elems) IN
         IF e = <<>> \/ e = <<".">> THEN CleanElems(Tail(elems), out, rooted)
         ELSE IF e = <<".", ".">>
         THEN IF out # <<>> /\ out[Len(out)] # <<".", ".">>
              THEN CleanElems(Tail(elems), SubSeq(out, 1, Len(out) - 1), rooted)
              ELSE IF rooted THEN CleanElems(Tail(elems), out, rooted)
              ELSE CleanElems(Tail(elems), Append(out, e), rooted)
         ELSE CleanElems(Tail(elems), Append(out, e), rooted)

IsRooted(p) ==
    p # <<>> /\ p[1] = "/"

CleanBody(rooted, body) ==
    IF rooted THEN <<"/">> \o body
    ELSE IF body = <<>> THEN <<".">>
    ELSE body

\* filepath.Clean
Clean(p) ==
    CleanBody(IsRooted(p), JoinElems(CleanElems(SplitPath(p), <<>>, IsRooted(p))))

\* filepath.Join(a, b): empty elements are ignored, the result is cleaned
Join(a, b) ==
    IF a = <<>> /\ b = <<>> THEN <<>>
    ELSE IF a = <<>> THEN Clean(b)
    ELSE IF b = <<>> THEN Clean(a)
    ELSE Clean(a \o <<"/">> \o b)

\* filepath.Dir and path.Dir: everything up to the last separator, cleaned
Dir(p) ==
    Clean(SubSeq(p, 1, LastIndexChar(p, "/")))

RECURSIVE StripTrailingSlashes(_)
StripTrailingSlashes(p) ==
    IF p # <<>> /\ p[Len(p)] = "/"
    THEN StripTrailingSlashes(SubSeq(p, 1, Len(p) - 1))
    ELSE p

\* filepath.Base
LastElem(q) ==
    IF q = <<>> THEN <<"/">> ELSE Tail2(q, LastIndexChar(q, "/") + 1)

Base(p) ==
    IF p = <<>> THEN <<".">> ELSE LastElem(StripTrailingSlashes(p))

\* filepath.Ext: the suffix of the last element from its last dot
FromIndex(b, i) ==
    IF i = 0 THEN <<>> ELSE Tail2(b, i)

Ext(p) ==
    FromIndex(Tail2(p, LastIndexChar(p, "/") + 1),
              LastIndexChar(Tail2(p, LastIndexChar(p, "/") + 1), "."))

\* ------------------------------------------------------------------------
\* The filesystem (afero.OsFs: the files of the operating system)
\* ------------------------------------------------------------------------
\* A filesystem value is a record
\*   files  : a function from the absolute clean path of every regular file
\*            to its content (a sequence of lines, each a string)
\*   dirs   : the absolute clean paths of the directories, "/" among them
\*   locked : the paths of regular files that cannot be opened for reading
\*   cwd    : the working directory of the process; OsFs hands every name to
\*            the system as given, which takes a relative name from here
\*   gone   : the paths of the directories that have been removed while they
\*            were the working directory or an ancestor of it.  The process
\*            still stands in such a directory: "." and ".." are found
\*            there, no other name is, and nothing can be created in it.
\*            It is not in dirs; a directory made later under the same path
\*            is another directory.
\* Every file and directory but "/" has its parent directory in dirs.

Root ==
    <<"/">>

Dot ==
    <<".">>

DotDot ==
    <<".", ".">>

\* the working directory of the trees of the model
Cwd ==
    <<"/", "w">>

\* the proper ancestors of an absolute clean path
Ancestors(q) ==
    IF q = Root THEN {}
    ELSE {Root} \cup {SubSeq(q, 1, i - 1) : i \in {j \in DOMAIN q : q[j] = "/" /\ j > 1}}

IsUnder(q, d) ==
    d \in Ancestors(q)

ParentOf(q) ==
    IF q = Root THEN Root ELSE Dir(q)

Child(q, e) ==
    IF q = Root THEN Root \o e ELSE q \o <<"/">> \o e

\* what is at the absolute clean path q
StatNorm(f, q) ==
    IF q \in f.dirs THEN "dir"
    ELSE IF q \in DOMAIN f.files THEN "file"
    ELSE IF \E a \in Ancestors(q) : a \in DOMAIN f.files THEN "notdir"
    ELSE "none"

\* the lookup of a name, element by element, cur being the path reached and
\* kind what is there.  Below a regular file every further element, an
\* empty one too, is ENOTDIR; below a missing name everything but a
\* trailing separator is ENOENT; ".." is the parent of the directory reached.
\* The kind "gone" is a removed directory the process stands in or below:
\* "." stays there, ".." is its parent, every other name is ENOENT; a name
\* that ends there denotes a directory.
\* The key is the path reached; it is empty when not even the parent exists,
\* and for a removed directory, which has no path any more.
RECURSIVE Walk(_, _, _, _)
Walk(f, cur, kind, elems) ==
    IF elems = <<>>
    THEN IF kind = "gone" THEN [kind |-> "dir", key |-> <<>>]
         ELSE [kind |-> kind, key |-> cur]
    ELSE IF kind \in {"file", "notdir"} THEN [kind |-> "notdir", key |-> <<>>]
    ELSE IF kind = "none"
    THEN IF Head(elems) = <<>> THEN Walk(f, cur, kind, Tail(elems))
         ELSE [kind |-> "none", key |-> <<>>]
    ELSE IF Head(elems) = <<>> \/ Head(elems) = Dot THEN Walk(f, cur, kind, Tail(elems))
    ELSE IF Head(elems) = DotDot
    THEN Walk(f, ParentOf(cur),
              IF kind = "gone" /\ ParentOf(cur) \in f.gone THEN "gone" ELSE "dir",
              Tail(elems))
    ELSE IF kind = "gone" THEN [kind |-> "none", key |-> <<>>]
    ELSE Walk(f, Child(cur, Head(elems)),
              StatNorm(f, Child(cur, Head(elems))), Tail(elems))

\* the file a name denotes: "" is ENOENT, a rooted name is looked up from
\* "/", any other from the working directory, removed or not
Resolve(f, p) ==
    IF p = <<>> THEN [kind |-> "none", key |-> <<>>]
    ELSE IF IsRooted(p) THEN Walk(f, Root, "dir", SplitPath(p))
    ELSE Walk(f, f.cwd,
              IF f.cwd \in f.gone THEN "gone" ELSE StatNorm(f, f.cwd),
              SplitPath(p))

\* fs.Stat: "dir", "file", "none" (ENOENT) or "notdir" (ENOTDIR: an element of
\* the path is a regular file)
StatKind(f, p) ==
    Resolve(f, p).kind

\* afero.Exists: (true, nil) when Stat succeeds, (false, nil) on ENOENT,
\* (false, err) otherwise.  ExistsOk is "exists && err == nil".
ExistsOk(f, p) ==
    StatKind(f, p) \in {"dir", "file"}

\* "!exists && err == nil"
MissingOk(f, p) ==
    StatKind(f, p) = "none"

\* afero.DirExists
DirExists(f, p) ==
    StatKind(f, p) = "dir"

\* the last element of the name is "." or "..": rename(2) and rmdir(2) refuse it
EndsInDots(p) ==
    Base(p) \in {Dot, DotDot}

\* syscall.Mkdir of the name p, r being what the lookup of p gives; os.MkdirAll
\* takes EEXIST for success when a directory is there
MkdirAt(f, r) ==
    IF r.kind = "dir" THEN [ok |-> TRUE, fs |-> f]
    ELSE IF r.kind = "none" /\ r.key # <<>>
    THEN [ok |-> TRUE, fs |-> [f EXCEPT !.dirs = @ \cup {r.key}]]
    ELSE [ok |-> FALSE, fs |-> f]

\* the name os.MkdirAll creates first: p without trailing separators and
\* without its last element and the separator before it; "" when p has one
\* element or is one element below "/"
ParentName(p) ==
    SubSeq(StripTrailingSlashes(p), 1,
           LastIndexChar(StripTrailingSlashes(p), "/") - 1)

\* os.MkdirAll: nothing to do when Stat finds a directory, ENOTDIR when it
\* finds a file; otherwise the parent is made and then p itself
RECURSIVE MkdirAll(_, _)
RECURSIVE MkdirAfter(_, _)
MkdirAfter(e, p) ==
    IF ~e.ok THEN e ELSE MkdirAt(e.fs, Resolve(e.fs, p))

MkdirAll(f, p) ==
    IF StatKind(f, p) = "dir" THEN [ok |-> TRUE, fs |-> f]
    ELSE IF StatKind(f, p) = "file" THEN [ok |-> FALSE, fs |-> f]
    ELSE IF ParentName(p) = <<>> THEN MkdirAt(f, Resolve(f, p))
    ELSE MkdirAfter(MkdirAll(f, ParentName(p)), p)

\* the path of q (q = old or under old) after old has been renamed to new
Rebase(q, old, new) ==
    IF q = old THEN new ELSE new \o Tail2(q, Len(old) + 1)

Moved(q, o) ==
    q = o \/ IsUnder(q, o)

\* the filesystem after the file or directory o has become n
Relocate(f, o, n) ==
    [files  |-> [r \in {q \in DOMAIN f.files : ~Moved(q, o) /\ q # n}
                       \cup {Rebase(q, o, n) : q \in {m \in DOMAIN f.files : Moved(m, o)}}
                 |-> IF Moved(r, n)
                     THEN f.files[Rebase(r, n, o)]
                     ELSE f.files[r]],
     dirs   |-> {q \in f.dirs : ~Moved(q, o)}
                \cup {Rebase(q, o, n) : q \in {d \in f.dirs : Moved(d, o)}},
     locked |-> {q \in f.locked : ~Moved(q, o) /\ q # n}
                \cup {Rebase(q, o, n) : q \in {l \in f.locked : Moved(l, o)}},
     cwd    |-> IF Moved(f.cwd, o) /\ o \notin f.gone
                THEN Rebase(f.cwd, o, n) ELSE f.cwd,
     gone   |-> IF Moved(f.cwd, o) /\ o \notin f.gone
                THEN {q \in f.gone : ~Moved(q, o)}
                     \cup {Rebase(q, o, n) : q \in {g \in f.gone : Moved(g, o)}}
                ELSE f.gone]

\* rename(2) of o, of kind ko, to n, of kind kn (n = "" when the parent of
\* the new name is missing); slash tells that a name was given with a
\* trailing separator, dots that a name ends in "." or "..".  os.Rename has
\* returned before when n is a directory other than o.
RenameKinds(f, o, n, ko, kn, slash, dots) ==
    IF ko \notin {"file", "dir"} \/ o = Root \/ dots THEN [ok |-> FALSE, fs |-> f]
    ELSE IF kn = "notdir" \/ n = <<>> THEN [ok |-> FALSE, fs |-> f]
    ELSE IF ko = "file" /\ slash THEN [ok |-> FALSE, fs |-> f]
    ELSE IF o = n THEN [ok |-> TRUE, fs |-> f]
    ELSE IF ko = "dir" /\ (kn = "file" \/ IsUnder(n, o))
    THEN [ok |-> FALSE, fs |-> f]
    ELSE [ok |-> TRUE, fs |-> Relocate(f, o, n)]

HasTrailingSlash(p) ==
    p # <<>> /\ p[Len(p)] = "/"

\* os.Rename after its two Lstat, ro and rn being the lookups of old and new
RenameResolved(f, old, new, ro, rn) ==
    IF rn.kind = "dir" /\ ro.kind \notin {"file", "dir"} THEN [ok |-> FALSE, fs |-> f]
    ELSE IF rn.kind = "dir" /\ (new = old \/ ro.key # rn.key) THEN [ok |-> FALSE, fs |-> f]
    ELSE RenameKinds(f, ro.key, rn.key, ro.kind, rn.kind,
                     HasTrailingSlash(old) \/ HasTrailingSlash(new),
                     EndsInDots(old) \/ EndsInDots(new))

\* fs.Rename (os.Rename).  When new is a directory, os.Rename returns EEXIST
\* without a system call unless old is the same directory under another
\* name; so a directory renamed to its own name fails.  rename(2) fails when
\* old does not exist, when the parent of new is missing or not a directory,
\* when a directory is moved onto a file or into itself.  A file at new is
\* replaced.  A regular file renamed to itself is left as it is.
Rename(f, old, new) ==
    RenameResolved(f, old, new, Resolve(f, old), Resolve(f, new))

\* the entries of the directory at the absolute clean path d
EntriesNorm(f, d) ==
    {q \in (DOMAIN f.files) \cup f.dirs : q # Root /\ Dir(q) = d}

\* the entries of the directory named d; reading a removed directory fails
\* and yields none
Entries(f, d) ==
    EntriesNorm(f, Resolve(f, d).key)

\* afero.IsEmpty for an existing directory: the error of Readdir is dropped
IsEmpty(f, d) ==
    Entries(f, d) = {}

\* os.Remove of what the lookup r of the name found: unlink(2) removes a
\* regular file; rmdir(2) removes an empty directory, but not "/" and not
\* under a name that ends in "." or "..".  A removed directory that is the
\* working directory or above it is remembered in gone.
RemoveResolved(f, r, dots) ==
    IF r.kind = "file"
    THEN [ok |-> TRUE,
          fs |-> [f EXCEPT !.files = [q \in DOMAIN f.files \ {r.key} |-> f.files[q]],
                           !.locked = @ \ {r.key}]]
    ELSE IF r.kind = "dir" /\ ~dots /\ r.key # Root /\ EntriesNorm(f, r.key) = {}
    THEN [ok |-> TRUE,
          fs |-> [f EXCEPT !.dirs = @ \ {r.key},
                           !.gone = IF Moved(f.cwd, r.key) THEN @ \cup {r.key} ELSE @]]
    ELSE [ok |-> FALSE, fs |-> f]

\* fs.Remove (os.Remove)
Remove(f, d) ==
    RemoveResolved(f, Resolve(f, d), EndsInDots(d))

\* fs.Open for reading
CanOpen(f, p) ==
    /\ StatKind(f, p) \in {"file", "dir"}
    /\ Resolve(f, p).key \notin f.locked

\* what bufio.Scanner yields: the lines of a regular file; reading a
\* directory fails at once, so the scan loop sees no line
Lines(f, p) ==
    IF StatKind(f, p) = "file" THEN f.files[Resolve(f, p).key] ELSE <<>>

\* ------------------------------------------------------------------------
\* internal/file.go: File and NewFile
\* ------------------------------------------------------------------------

\* titleRe = `#+(.*)`, FindString: the leftmost match starts at the first '#'
\* of the line and runs to its end; "" when the line has no '#'
TitleMatch(line) ==
    FromIndex(line, Index(line, <<"#">>))

\* strings.TrimLeft(titleRe.FindString(line), " #")
TitleOf(line) ==
    TrimLeft(TitleMatch(line), {" ", "#"})

\* imageRe = `!\[.*]\((.+)\)`, FindStringSubmatch, as the set of candidate
\* positions k of "](" of a match: "![" starts at or before k - 2 and a ")"
\* follows at least one character after "]("
SplitsBetween(line, bang, last) ==
    {k \in DOMAIN line :
        /\ bang # 0 /\ bang + 2 <= k
        /\ HasPrefixAt(line, k, <<"]", "(">>)
        /\ k + 3 <= last}

ImageSplits(line) ==
    SplitsBetween(line, Index(line, <<"!", "[">>), LastIndexChar(line, ")"))

ImageFound(line) ==
    ImageSplits(line) # {}

\* the submatch (.+): both `.*` and `.+` are greedy, so "](" is the last
\* candidate and the target runs to the last ")" of the line
ImageOf(line) ==
    SubSeq(line, MaxOf(ImageSplits(line)) + 2, LastIndexChar(line, ")") - 1)

\* the scan loop of NewFile over the lines read so far
RECURSIVE ScanLines(_, _, _)
ScanLines(lines, title, attachments) ==
    IF lines = <<>> THEN [Title |-> title, Attachments |-> attachments]
    ELSE ScanLines(Tail(lines),
                   IF title = <<>> THEN TitleOf(Head(lines)) ELSE title,
                   IF ImageFound(Head(lines))
                   THEN Append(attachments, ImageOf(Head(lines)))
                   ELSE attachments)

FileOf(path, r) ==
    [Path |-> path, Title |-> r.Title, Attachments |-> r.Attachments]

\* NewFile: the File of a path that can be opened
NewFile(f, path) ==
    FileOf(path, ScanLines(Lines(f, path), <<>>, <<>>))

\* ------------------------------------------------------------------------
\* Log lines and errors
\* ------------------------------------------------------------------------

WarnExists ==
    "[WARN] file already exists"

WarnSameName ==
    "[WARN] File with the same name already exists"

WarnMissing ==
    "[WARN] attachment is missing"

LogSkipping ==
    "Skipping"

NoError ==
    "nil"

errNoFilesFound ==
    "no markdown files found"

errNoFilesToMove ==
    "no files to move"

errMoveMultiple ==
    "specify an existing directory as a destination for multiple markdown files"

errWrongTemplate ==
    "incorrect template in the destination path"

errMoveFile ==
    "failed to move the file"

errMoveAttachment ==
    "failed to move the attachment"

errMoveAFile ==
    "failed to move a file"

errMoveAnAttachment ==
    "failed to move an attachment"

errCreateDir ==
    "failed to create a directory"

\* the error of Stat that ensureDir returns as it is: ENOTDIR
errNotDir ==
    "not a directory"

errCleanUp ==
    "failed to clean up a dir"

RenameErrors ==
    {errMoveFile, errMoveAttachment, errMoveAFile, errMoveAnAttachment}

LogLine(kind, path) ==
    [kind |-> kind, path |-> path]

\* ------------------------------------------------------------------------
\* internal/file.go: ensureDir, uniqueName, Move, MoveToDir
\* ------------------------------------------------------------------------

\* ensureDir for the directory dir of the destination, k being what Stat
\* reports for it
\* fs.MkdirAll has returned m: its error is wrapped
EnsureMade(m) ==
    [ok |-> m.ok, fs |-> m.fs, err |-> IF m.ok THEN NoError ELSE errCreateDir]

EnsureKind(f, dir, k) ==
    IF k = "dir" THEN [ok |-> TRUE, fs |-> f, err |-> NoError]
    ELSE IF k = "notdir" THEN [ok |-> FALSE, fs |-> f, err |-> errNotDir]
    ELSE EnsureMade(MkdirAll(f, dir))

EnsureDirOf(f, dir) ==
    EnsureKind(f, dir, StatKind(f, dir))

\* ensureDir: the directory of dest is created with its parents when
\* afero.DirExists reports that there is no such directory; the error of
\* DirExists (Stat fails with ENOTDIR) is returned as it is, the error of
\* MkdirAll wrapped
ensureDir(f, dest) ==
    EnsureDirOf(f, Dir(dest))

\* the submatch of `(?mU)(.*)_*\d*$` on a name without its extension: every
\* quantifier is lazy, so (.*) is the shortest prefix after which only
\* underscores and then digits follow
RECURSIVE StripDigits(_)
StripDigits(s) ==
    IF s # <<>> /\ s[Len(s)] \in Digits
    THEN StripDigits(SubSeq(s, 1, Len(s) - 1))
    ELSE s

RECURSIVE StripUnderscores(_)
StripUnderscores(s) ==
    IF s # <<>> /\ s[Len(s)] = "_"
    THEN StripUnderscores(SubSeq(s, 1, Len(s) - 1))
    ELSE s

NameStem(s) ==
    StripUnderscores(StripDigits(s))

\* fmt.Sprintf("%s_%d%s", name[1], i, ext) for the lower-cased base name file
Suffixed(file, ext, i) ==
    NameStem(TrimSuffix(file, ext)) \o <<"_">> \o Itoa(i) \o ext

SuffixedFile(file, i) ==
    Suffixed(file, Ext(file), i)

\* the body of the loop of uniqueName: the next candidate for dest
NextName(dest, i) ==
    Join(Dir(dest), SuffixedFile(Base(ToLower(dest)), i))

\* a variant of the loop below that tries the suffix _1 only
UniqueOnce(f, dest, i) ==
    IF ExistsOk(f, dest) THEN NextName(dest, i) ELSE dest

\* the loop of uniqueName from counter i
RECURSIVE UniqueFrom(_, _, _)
UniqueFrom(f, dest, i) ==
    IF ExistsOk(f, dest) THEN UniqueFrom(f, NextName(dest, i), i + 1) ELSE dest

\* uniqueName: the destination, and the warning of the first iteration
uniqueName(f, dest) ==
    [dest |-> UniqueFrom(f, dest, 1),
     log  |-> IF ExistsOk(f, dest) THEN <<LogLine(WarnSameName, dest)>> ELSE <<>>]

\* the attachment loop of Move, from the attachments still to be moved
RECURSIVE MoveAttachments(_, _, _, _)
RECURSIVE MoveAttachmentEnsured(_, _, _, _, _)
RECURSIVE MoveAttachmentRenamed(_, _, _, _)
MoveAttachments(f, dir, destDir, attachments) ==
    IF attachments = <<>> THEN [fs |-> f, err |-> NoError]
    ELSE MoveAttachmentEnsured(ensureDir(f, Join(destDir, Head(attachments))),
                               dir, destDir, Head(attachments), Tail(attachments))

\* a variant of the step below that moves the attachment next to the file,
\* dropping the directory the reference names
MoveAttachmentFlat(e, dir, destDir, attachment, rest) ==
    IF ~e.ok THEN [fs |-> e.fs, err |-> e.err]
    ELSE MoveAttachmentRenamed(
            Rename(e.fs, Join(dir, attachment), Join(destDir, Base(attachment))),
            dir, destDir, rest)

\* after ensureDir(f.fs, attachmentDest) has returned e
MoveAttachmentEnsured(e, dir, destDir, attachment, rest) ==
    IF ~e.ok THEN [fs |-> e.fs, err |-> e.err]
    ELSE MoveAttachmentRenamed(
            Rename(e.fs, Join(dir, attachment), Join(destDir, attachment)),
            dir, destDir, rest)

\* a variant of the step below that goes on with the next attachment after
\* a failed rename and reports the failure at the end
MoveAttachmentContinue(r, dir, destDir, rest) ==
    IF ~r.ok
    THEN [fs |-> MoveAttachments(r.fs, dir, destDir, rest).fs, err |-> errMoveAttachment]
    ELSE MoveAttachments(r.fs, dir, destDir, rest)

\* after f.fs.Rename(filepath.Join(dir, attachment), attachmentDest) has returned r
MoveAttachmentRenamed(r, dir, destDir, rest) ==
    IF ~r.ok THEN [fs |-> r.fs, err |-> errMoveAttachment]
    ELSE MoveAttachments(r.fs, dir, destDir, rest)

\* what Move returns after its attachment loop has returned a: the deferred
\* function has set the Path of the File to dest
MoveResult(a, warn, dest) ==
    [fs |-> a.fs, err |-> a.err, log |-> warn, Path |-> dest]

\* a variant of the step below that runs the attachment loop also when the
\* file stays in its directory
MoveRenamedAlways(g, file, dest, warn) ==
    IF Len(file.Attachments) = 0
    THEN [fs |-> g, err |-> NoError, log |-> warn, Path |-> dest]
    ELSE MoveResult(MoveAttachments(g, Dir(file.Path), Dir(dest), file.Attachments),
                    warn, dest)

\* Move after the Rename of the file has succeeded with filesystem g
MoveRenamed(g, file, dest, warn) ==
    IF Dir(file.Path) = Dir(dest) \/ Len(file.Attachments) = 0
    THEN [fs |-> g, err |-> NoError, log |-> warn, Path |-> dest]
    ELSE MoveResult(MoveAttachments(g, Dir(file.Path), Dir(dest), file.Attachments),
                    warn, dest)

\* Move after ensureDir has returned e, and after Rename has returned r
MoveRename(r, file, dest, warn) ==
    IF ~r.ok
    THEN [fs |-> r.fs, err |-> errMoveFile, log |-> warn, Path |-> file.Path]
    ELSE MoveRenamed(r.fs, file, dest, warn)

\* a variant of MoveEnsured that keeps the name of the file and moves it
\* into the directory of dest
MoveKeepName(e, file, dest, warn) ==
    IF ~e.ok
    THEN [fs |-> e.fs, err |-> e.err, log |-> warn, Path |-> file.Path]
    ELSE MoveRename(Rename(e.fs, file.Path, Join(Dir(dest), Base(file.Path))),
                    file, dest, warn)

MoveEnsured(e, file, dest, warn) ==
    IF ~e.ok
    THEN [fs |-> e.fs, err |-> e.err, log |-> warn, Path |-> file.Path]
    ELSE MoveRename(Rename(e.fs, file.Path, dest), file, dest, warn)

\* a variant of Move that logs nothing when the destination exists
MoveQuiet(f, file, dest) ==
    MoveEnsured(ensureDir(f, dest), file, dest, <<>>)

\* File.Move: the filesystem, the error, the log lines and the Path of the
\* File when the call returns
Move(f, file, dest) ==
    MoveEnsured(ensureDir(f, dest), file, dest,
                IF ExistsOk(f, dest) THEN <<LogLine(WarnExists, Base(dest))>> ELSE <<>>)

\* the attachment loop of MoveToDir
RECURSIVE MoveAttachmentsToDir(_, _, _, _)
RECURSIVE MoveToDirEnsured(_, _, _, _, _)
RECURSIVE MoveToDirRenamed(_, _, _, _)
\* a variant of the loop below that leaves the loop at a missing attachment
MoveAttachmentsStop(f, dir, dirName, attachments) ==
    IF attachments = <<>> THEN [fs |-> f, err |-> NoError, log |-> <<>>]
    ELSE IF MissingOk(f, Join(dir, Head(attachments)))
    THEN [fs |-> f, err |-> NoError,
          log |-> <<LogLine(WarnMissing, Join(dir, Head(attachments)))>>]
    ELSE MoveToDirEnsured(ensureDir(f, Join(dirName, Head(attachments))),
                          dir, dirName, Head(attachments), Tail(attachments))

MoveAttachmentsToDir(f, dir, dirName, attachments) ==
    IF attachments = <<>> THEN [fs |-> f, err |-> NoError, log |-> <<>>]
    ELSE IF MissingOk(f, Join(dir, Head(attachments)))
    THEN [MoveAttachmentsToDir(f, dir, dirName, Tail(attachments)) EXCEPT
            !.log = <<LogLine(WarnMissing, Join(dir, Head(attachments)))>> \o @]
    ELSE MoveToDirEnsured(ensureDir(f, Join(dirName, Head(attachments))),
                          dir, dirName, Head(attachments), Tail(attachments))

\* a variant of the step below that moves the attachment into dirName itself,
\* dropping the directory the reference names
MoveToDirFlat(e, dir, dirName, attachment, rest) ==
    IF ~e.ok THEN [fs |-> e.fs, err |-> e.err, log |-> <<>>]
    ELSE MoveToDirRenamed(
            Rename(e.fs, Join(dir, attachment), Join(dirName, Base(attachment))),
            dir, dirName, rest)

\* after ensureDir(f.fs, dest) has returned e
MoveToDirEnsured(e, dir, dirName, attachment, rest) ==
    IF ~e.ok THEN [fs |-> e.fs, err |-> e.err, log |-> <<>>]
    ELSE MoveToDirRenamed(
            Rename(e.fs, Join(dir, attachment), Join(dirName, attachment)),
            dir, dirName, rest)

\* after f.fs.Rename(src, dest) has returned r
MoveToDirRenamed(r, dir, dirName, rest) ==
    IF ~r.ok THEN [fs |-> r.fs, err |-> errMoveAnAttachment, log |-> <<>>]
    ELSE MoveAttachmentsToDir(r.fs, dir, dirName, rest)

\* MoveToDir after Rename of the file to the unique name has returned r
MoveToDirFile(r, file, dirName, warn) ==
    IF ~r.ok
    THEN [fs |-> r.fs, err |-> errMoveAFile, log |-> warn, Path |-> file.Path]
    ELSE [fs |-> r.fs, err |-> NoError, log |-> warn, Path |-> file.Path]

MoveToDirRest(p, a) ==
    IF p.err # NoError THEN p
    ELSE [fs |-> a.fs, err |-> a.err, log |-> p.log \o a.log, Path |-> p.Path]

MoveToDirNamed(f, file, dirName, u) ==
    MoveToDirFile(Rename(f, file.Path, u.dest), file, dirName, u.log)

\* the destination MoveToDir renames the file to
UniqueDest(f, file, dirName) ==
    uniqueName(f, Join(dirName, Base(file.Path)))

MoveToDirAttachments(p, file, dirName) ==
    MoveToDirRest(p, MoveAttachmentsToDir(p.fs, Dir(file.Path), dirName, file.Attachments))

\* File.MoveToDir (the Path of the File is not assigned)
MoveToDir(f, file, dirName) ==
    MoveToDirAttachments(MoveToDirNamed(f, file, dirName, UniqueDest(f, file, dirName)),
                         file, dirName)

\* ------------------------------------------------------------------------
\* main.go: findFiles, parseFiles, cleanupList, isTemplate, replaceTemplates
\* ------------------------------------------------------------------------

Placeholder ==
    <<"%", "t", "i", "t", "l", "e", "%">>

\* isTemplate: "no" (no '%'), "yes", or "wrong" (errWrongTemplate)
isTemplate(path) ==
    IF ~Contains(path, <<"%">>) THEN "no"
    ELSE IF ~Contains(path, Placeholder) THEN "wrong"
    ELSE "yes"

\* replaceTemplates
replaceTemplates(tpl, title) ==
    ReplaceFirst(tpl, Placeholder, ReplaceAllChar(title, "/", "_"))

\* isDir
isDir(f, path) ==
    StatKind(f, path) = "dir"

\* filepath.Match reports "match", "nomatch" or "bad" (ErrBadPattern)

\* scanChunk: the end of the chunk that starts at p[1], as the index of the
\* first character after it: the first '*' outside a character class
RECURSIVE ChunkEnd(_, _, _)
ChunkEnd(p, i, inrange) ==
    IF i > Len(p) THEN i
    ELSE IF p[i] = "\\" THEN ChunkEnd(p, IF i + 1 <= Len(p) THEN i + 2 ELSE i + 1, inrange)
    ELSE IF p[i] = "[" THEN ChunkEnd(p, i + 1, TRUE)
    ELSE IF p[i] = "]" THEN ChunkEnd(p, i + 1, FALSE)
    ELSE IF p[i] = "*" /\ ~inrange THEN i
    ELSE ChunkEnd(p, i + 1, inrange)

\* scanChunk: the leading stars, the chunk after them and the rest
scanChunk(pattern) ==
    LET p == TrimLeft(pattern, {"*"})
        e == ChunkEnd(p, 1, FALSE)
    IN  [star  |-> pattern # <<>> /\ pattern[1] = "*",
         chunk |-> SubSeq(p, 1, e - 1),
         rest  |-> Tail2(p, e)]

\* getEsc: one character of a character class, possibly escaped; an error
\* when the chunk ends with it
getEsc(chunk) ==
    IF chunk = <<>> \/ chunk[1] = "-" \/ chunk[1] = "]"
    THEN [err |-> TRUE, r |-> "", rest |-> <<>>]
    ELSE IF chunk[1] = "\\"
    THEN IF Len(chunk) = 1 THEN [err |-> TRUE, r |-> "", rest |-> <<>>]
         ELSE [err |-> Len(chunk) = 2, r |-> chunk[2], rest |-> Tail(Tail(chunk))]
    ELSE [err |-> Len(chunk) = 1, r |-> chunk[1], rest |-> Tail(chunk)]

\* lo <= r && r <= hi; r is "" (the zero rune) once the match has failed
InRange(lo, r, hi) ==
    r # "" /\ Rank(lo) <= Rank(r) /\ Rank(r) <= Rank(hi)

\* matchChunk, "parse all ranges": whether r lies in a range of the class
\* and the chunk after the closing ']'
RECURSIVE Ranges(_, _, _, _)
RangesHi(lo, hi, r, match, nrange) ==
    IF hi.err THEN [err |-> TRUE, match |-> FALSE, rest |-> <<>>]
    ELSE Ranges(hi.rest, r, match \/ InRange(lo, r, hi.r), nrange + 1)

RangesLo(lo, r, match, nrange) ==
    IF lo.err THEN [err |-> TRUE, match |-> FALSE, rest |-> <<>>]
    ELSE IF lo.rest[1] = "-"
    THEN RangesHi(lo.r, getEsc(Tail(lo.rest)), r, match, nrange)
    ELSE Ranges(lo.rest, r, match \/ InRange(lo.r, r, lo.r), nrange + 1)

Ranges(chunk, r, match, nrange) ==
    IF chunk # <<>> /\ chunk[1] = "]" /\ nrange > 0
    THEN [err |-> FALSE, match |-> match, rest |-> Tail(chunk)]
    ELSE RangesLo(getEsc(chunk), r, match, nrange)

\* the class that starts after '[', possibly negated: match tells whether
\* r is accepted
ClassOf(chunk, r) ==
    IF chunk # <<>> /\ chunk[1] = "^"
    THEN [Ranges(Tail(chunk), r, FALSE, 0) EXCEPT !.match = ~@]
    ELSE Ranges(chunk, r, FALSE, 0)

\* matchChunk: whether chunk matches a prefix of s, and the rest of s.  Once
\* the match has failed the chunk is still read to its end, so that a
\* malformed chunk is an error whatever s is.
RECURSIVE matchChunk(_, _, _)
MatchClass(c, s, failed) ==
    IF c.err THEN [ok |-> FALSE, err |-> TRUE, rest |-> <<>>]
    ELSE matchChunk(c.rest, s, failed \/ ~c.match)

MatchLiteral(chunk, s, failed) ==
    matchChunk(Tail(chunk),
               IF failed THEN s ELSE Tail(s),
               failed \/ chunk[1] # s[1])

MatchHead(chunk, s, failed) ==
    IF chunk[1] = "["
    THEN MatchClass(ClassOf(Tail(chunk), IF failed THEN "" ELSE s[1]),
                    IF failed THEN s ELSE Tail(s), failed)
    ELSE IF chunk[1] = "?"
    THEN matchChunk(Tail(chunk),
                    IF failed THEN s ELSE Tail(s),
                    failed \/ s[1] = "/")
    ELSE IF chunk[1] = "\\"
    THEN IF Len(chunk) = 1 THEN [ok |-> FALSE, err |-> TRUE, rest |-> <<>>]
         ELSE MatchLiteral(Tail(chunk), s, failed)
    ELSE MatchLiteral(chunk, s, failed)

matchChunk(chunk, s, failed) ==
    IF chunk = <<>>
    THEN [ok |-> ~failed, err |-> FALSE, rest |-> IF failed THEN <<>> ELSE s]
    ELSE MatchHead(chunk, s, failed \/ s = <<>>)

\* Match, before it returns false: the rest of the pattern is checked
RECURSIVE CheckRest(_)
CheckRest(pattern) ==
    IF pattern = <<>> THEN "nomatch"
    ELSE IF matchChunk(scanChunk(pattern).chunk, <<>>, FALSE).err THEN "bad"
    ELSE CheckRest(scanChunk(pattern).rest)

\* filepath.Match: the pattern is matched chunk by chunk; after a star the
\* chunk is looked for at every position up to the first separator, and the
\* first position where it matches is taken (the last chunk must match up to
\* the end of the name)
RECURSIVE Match(_, _)
RECURSIVE MatchSkip(_, _, _)
MatchSkipped(c, name, i, m) ==
    IF m.ok
    THEN IF c.rest = <<>> /\ m.rest # <<>> THEN MatchSkip(c, name, i + 1)
         ELSE Match(c.rest, m.rest)
    ELSE IF m.err THEN "bad"
    ELSE MatchSkip(c, name, i + 1)

MatchSkip(c, name, i) ==
    IF i < Len(name) /\ name[i + 1] # "/"
    THEN MatchSkipped(c, name, i, matchChunk(c.chunk, Tail2(name, i + 2), FALSE))
    ELSE CheckRest(c.rest)

MatchHere(c, name, m) ==
    IF m.ok /\ (m.rest = <<>> \/ c.rest # <<>>) THEN Match(c.rest, m.rest)
    ELSE IF m.err THEN "bad"
    ELSE IF c.star THEN MatchSkip(c, name, 0)
    ELSE CheckRest(c.rest)

Match(pattern, name) ==
    IF pattern = <<>> THEN (IF name = <<>> THEN "match" ELSE "nomatch")
    ELSE LET c == scanChunk(pattern)
         IN  IF c.star /\ c.chunk = <<>>
             THEN IF "/" \in Range(name) THEN "nomatch" ELSE "match"
             ELSE MatchHere(c, name, matchChunk(c.chunk, name, FALSE))

\* a set of strings as a sequence in increasing byte order (sort.Strings)
RECURSIVE SortAsc(_)
SortAsc(S) ==
    IF S = {} THEN <<>>
    ELSE LET m == CHOOSE x \in S : \A y \in S \ {x} : StrLess(x, y)
         IN  <<m>> \o SortAsc(S \ {m})

\* sort.Sort(sort.Reverse(sort.StringSlice(keys)))
RECURSIVE SortDesc(_)
SortDesc(S) ==
    IF S = {} THEN <<>>
    ELSE LET m == CHOOSE x \in S : \A y \in S \ {x} : StrLess(y, x)
         IN  <<m>> \o SortDesc(S \ {m})

ErrBadPattern ==
    "syntax error in pattern"

\* afero's hasMeta
hasMeta(path) ==
    \E i \in DOMAIN path : path[i] \in {"*", "?", "["}

\* Readdirnames of the directory named d
Readdirnames(f, d) ==
    {Base(q) : q \in Entries(f, d)}

\* afero's glob: the names of the directory dir that match the pattern, in
\* sorted order, joined to dir and appended to the matches; the matches
\* unchanged when dir is not a directory
RECURSIVE globNames(_, _, _, _)
globName(dir, pattern, names, m, r) ==
    IF r = "bad" THEN [files |-> m, err |-> ErrBadPattern]
    ELSE globNames(dir, pattern, Tail(names),
                   IF r = "match" THEN Append(m, Join(dir, Head(names))) ELSE m)

globNames(dir, pattern, names, m) ==
    IF names = <<>> THEN [files |-> m, err |-> NoError]
    ELSE globName(dir, pattern, names, m, Match(pattern, Head(names)))

glob(f, dir, pattern, matches) ==
    IF ~isDir(f, dir) THEN [files |-> matches, err |-> NoError]
    ELSE globNames(dir, pattern, SortAsc(Readdirnames(f, dir)), matches)

\* the directory part of filepath.Split as Glob uses it: "." for none, "/"
\* kept, the trailing separator chopped off otherwise
GlobDir(dir) ==
    IF dir = <<>> THEN Dot
    ELSE IF dir = <<"/">> THEN dir
    ELSE SubSeq(dir, 1, Len(dir) - 1)

\* the loop of Glob over the matches of the directory part
RECURSIVE globDirs(_, _, _, _)
globDirs(f, ds, file, matches) ==
    IF ds = <<>> THEN [files |-> matches, err |-> NoError]
    ELSE LET g == glob(f, Head(ds), file, matches)
         IN  IF g.err # NoError THEN g ELSE globDirs(f, Tail(ds), file, g.files)

\* afero.Glob: the matches (none is the nil slice) and the error
RECURSIVE Glob(_, _)
GlobSplit(f, dir, file) ==
    IF ~hasMeta(dir) THEN glob(f, dir, file, <<>>)
    ELSE LET m == Glob(f, dir)
         IN  IF m.err # NoError THEN [files |-> <<>>, err |-> m.err]
             ELSE globDirs(f, m.files, file, <<>>)

Glob(f, pattern) ==
    IF ~hasMeta(pattern)
    THEN [files |-> IF ExistsOk(f, pattern) THEN <<pattern>> ELSE <<>>, err |-> NoError]
    ELSE GlobSplit(f, GlobDir(SubSeq(pattern, 1, LastIndexChar(pattern, "/"))),
                   Tail2(pattern, LastIndexChar(pattern, "/") + 1))

\* findFiles: the files and the error; errNoFilesFound takes the place of
\* the error of Glob when the slice is nil
GlobResult(g) ==
    [files |-> g.files, err |-> IF g.files = <<>> THEN errNoFilesFound ELSE g.err]

findPattern(f, pat) ==
    IF Contains(pat, <<"*">>)
    THEN GlobResult(Glob(f, pat))
    ELSE [files |-> <<pat>>, err |-> NoError]

findFiles(f, path) ==
    findPattern(f, IF isDir(f, path) THEN path \o <<"/", "*", ".", "m", "d">> ELSE path)

\* parseFiles: the Files of the paths that can be opened, in order
RECURSIVE parseFiles(_, _)
parseFiles(f, files) ==
    IF files = <<>> THEN <<>>
    ELSE IF CanOpen(f, Head(files))
    THEN <<NewFile(f, Head(files))>> \o parseFiles(f, Tail(files))
    ELSE parseFiles(f, Tail(files))

\* the log lines of parseFiles
RECURSIVE parseLog(_, _)
parseLog(f, files) ==
    IF files = <<>> THEN <<>>
    ELSE IF CanOpen(f, Head(files)) THEN parseLog(f, Tail(files))
    ELSE <<LogLine(LogSkipping, Head(files))>> \o parseLog(f, Tail(files))

\* cleanupList: the directory of every file and of every attachment
cleanupList(mds) ==
    UNION {
        {Dir(mds[i].Path)} \cup
        {Join(Dir(mds[i].Path), Dir(mds[i].Attachments[j]))
            : j \in DOMAIN mds[i].Attachments}
        : i \in DOMAIN mds }

\* ------------------------------------------------------------------------
\* The inputs: a file tree, a source and a destination
\* ------------------------------------------------------------------------

\* the most Markdown files, image files and files already in the destination
\* directory that a tree holds
MaxDocs ==
    3

MaxImages ==
    2

MaxOld ==
    1

Heading(title) ==
    <<"#", " ">> \o title

Image(target) ==
    <<"!", "[", "]", "(">> \o target \o <<")">>

p_a_x ==
    <<"a", "/", "x", ".", "m", "d">>

p_a_y ==
    <<"a", "/", "y", ".", "m", "d">>

p_b_x ==
    <<"b", "/", "x", ".", "m", "d">>

p_x ==
    <<"x", ".", "m", "d">>

p_c_x ==
    <<"c", "/", "x", ".", "m", "d">>

p_b_Z2 ==
    <<"b", "/", "Z", "2", ".", "m", "d">>

r_i_p ==
    <<"i", "/", "p">>

r_q ==
    <<"q">>

\* an image reference into a directory whose name starts with a byte below '.'
r_m_p ==
    <<"-", "i", "/", "p">>

\* the Markdown files a tree may hold, with their lines
DocPool ==
    { [path |-> p_a_x, lines |-> <<Heading(<<"T">>), Image(r_i_p)>>],
      [path |-> p_a_y, lines |-> <<Image(r_q), Heading(<<"U">>),
                                   Heading(<<"V">>), Image(r_i_p)>>],
      [path |-> p_b_x, lines |-> <<Heading(<<"W", "/", "Z">>), Image(r_i_p)>>],
      [path |-> p_c_x, lines |-> <<Heading(<<"T">>)>>],
      [path |-> p_x,   lines |-> <<<<"r">>, Image(r_m_p)>>],
      [path |-> p_b_Z2, lines |-> <<Heading(<<"Z">>)>>] }

\* the image files a tree may hold
ImagePool ==
    { [path |-> <<"a", "/">> \o r_i_p, lines |-> <<<<"1">>>>],
      [path |-> <<"a", "/">> \o r_q,   lines |-> <<<<"2">>>>],
      [path |-> <<"b", "/">> \o r_i_p, lines |-> <<<<"3">>>>] }

\* a regular file in d with the name of the directory of an attachment
d_i ==
    <<"d", "/", "i">>

\* the files a tree may hold in the directory d before the move
OldPool ==
    { [path |-> <<"d", "/", "x", ".", "m", "d">>,           lines |-> <<<<"5">>>>],
      [path |-> <<"d", "/", "x", "_", "1", ".", "m", "d">>, lines |-> <<<<"6">>>>],
      [path |-> <<"d", "/", "Z", "2", ".", "m", "d">>,      lines |-> <<<<"7">>>>] }

\* the regular file that may stand in d where an attachment needs the
\* directory i
BlockPool ==
    { [path |-> d_i, lines |-> <<<<"8">>>>] }

\* the directories every tree holds: d, and in it the directory named T and
\* the directory named %title%
FixedDirs ==
    { <<"d">>, <<"d", "/", "T">>, <<"d", "/">> \o Placeholder }

NoMatch ==
    <<"n", "/", "*", ".", "m", "d">>

\* a directory whose name ends in .md, and the pattern that matches it
p_c_k ==
    <<"c", "/", "k", ".", "m", "d">>

InC ==
    <<"c", "/", "*", ".", "m", "d">>

\* a pattern with a character class and a '?', and a malformed pattern
InAB ==
    <<"[", "a", "-", "b", "]", "/", "?", "*", ".", "m", "d">>

BadPattern ==
    <<"a", "/", "*", "[">>

\* a destination in a directory whose path leads through the document a/y.md
UnderY ==
    p_a_y \o <<"/", "p", "/", "n", ".", "m", "d">>

\* a template that names the directory c/k.md for a File without a title
OntoK ==
    p_c_k \o Placeholder

SrcPool ==
    { <<"a">>, p_a_y, p_x,
      <<"*", "/", "*", ".", "m", "d">>,
      NoMatch, InC, InAB, BadPattern, <<>> }

DestPool ==
    { <<"d">>, <<"a">>,
      <<"n", ".", "m", "d">>,
      <<"a", "/", "n", ".", "m", "d">>,
      <<"c", "/", "n", ".", "m", "d">>,
      <<"d", "/", "x", ".", "m", "d">>,
      <<"t", "/">> \o Placeholder \o <<"/", "r", ".", "m", "d">>,
      <<"d", "/">> \o Placeholder,
      Placeholder \o <<"/">> \o Placeholder \o <<".", "m", "d">>,
      <<"%", "n", "%">>,
      OntoK, UnderY, <<>> }

SubsetsUpTo(S, n) ==
    {X \in SUBSET S : Cardinality(X) <= n}

\* the absolute clean path of a name given in the working directory Cwd
Abs(p) ==
    IF IsRooted(p) THEN Clean(p) ELSE Clean(Cwd \o <<"/">> \o p)

\* the tree that holds the given files and directories in the working
\* directory Cwd
Tree(entries, dirs, locked) ==
    [files  |-> [q \in {Abs(e.path) : e \in entries} |->
                    (CHOOSE e \in entries : Abs(e.path) = q).lines],
     dirs   |-> {Root, Cwd} \cup {Abs(d) : d \in dirs}
                     \cup UNION {Ancestors(Abs(e.path)) : e \in entries}
                     \cup UNION {Ancestors(Abs(d)) : d \in dirs},
     locked |-> {Abs(l) : l \in locked},
     cwd    |-> Cwd,
     gone   |-> {}]

\* an image reference that leaves the working directory and enters it again
r_w_p ==
    <<".", ".", "/", "w", "/", "p">>

\* the trees in which the working directory holds nothing but the document
\* x.md, alone or with the image it refers to (in the directory -i, or by
\* way of the parent directory), and the directory /o/d lies outside of it
LonePool ==
    { Tree({[path |-> p_x, lines |-> <<Heading(<<"T">>)>>]},
           {<<"/", "o", "/", "d">>}, {}),
      Tree({[path |-> p_x, lines |-> <<Heading(<<"T">>), Image(r_m_p)>>],
            [path |-> r_m_p, lines |-> <<<<"4">>>>]},
           {<<"/", "o", "/", "d">>}, {}),
      Tree({[path |-> p_x, lines |-> <<Heading(<<"T">>), Image(r_w_p)>>],
            [path |-> <<"p">>, lines |-> <<<<"9">>>>]},
           {<<"/", "o", "/", "d">>}, {}) }

\* the destinations outside the working directory: a directory and a template
OutPool ==
    { <<"/", "o", "/", "d">>,
      <<"/", "o", "/">> \o Placeholder \o <<"/", "x", ".", "m", "d">> }

\* ------------------------------------------------------------------------
\* main.go: mv, moveFiles, cleanUp as a state machine
\* ------------------------------------------------------------------------

VARIABLES
    fs,       \* the filesystem
    src,      \* the arguments of mv
    dest,
    pc,       \* the position of mv: start, plan, template, directory,
              \* literal, cleanup, done
    mdFiles,  \* the Files of the batch
    dirs,     \* the result of cleanupList
    keys,     \* the sorted slice cleanUp ranges over
    idx,      \* the index in mdFiles of the next file to move
    ci,       \* the index in keys of the next directory to check
    err,      \* the error mv returns: the chain of wrapped messages
    log,      \* the lines logged
    fs0,      \* history: the filesystem when mv was called
    parsed,   \* history: the Files parseFiles returned
    fsPre,    \* history: the filesystem before the last File was moved
    fsMoved,  \* history: the filesystem when cleanUp was called
    last      \* history: the last File moved, as it was before its move

vars ==
    << fs, src, dest, pc, mdFiles, dirs, keys, idx, ci, err, log,
       fs0, parsed, fsPre, fsMoved, last >>

NoFile ==
    [Path |-> <<>>, Title |-> <<>>, Attachments |-> <<>>]

Init ==
    /\ \/ \E docs \in SubsetsUpTo(DocPool, MaxDocs) :
          \E images \in SubsetsUpTo(ImagePool, MaxImages) :
          \E old \in SubsetsUpTo(OldPool, MaxOld) :
          \E block \in SUBSET BlockPool :
          \E locked \in SUBSET ({p_a_y} \cap {e.path : e \in docs}) :
          \E s \in SrcPool :
          \E d \in DestPool :
             \* the files already in d vary when the destination lies in d
             /\ (d = <<>> \/ d[1] # "d") => (old = {} /\ block = {})
             \* a source that names one file names a file of the tree, if the
             \* tree holds any Markdown file; a pattern that matches nothing is
             \* tried on the small trees
             /\ (s \in {p_a_y, p_x} /\ docs # {}) => s \in {e.path : e \in docs}
             /\ s \in {NoMatch, BadPattern, <<>>} => Cardinality(docs) <= 1
             /\ s = InAB => Cardinality(docs) <= 2
             \* the empty destination is tried with the sources that name one
             \* file, the template for c/k.md with the pattern for c
             /\ d = <<>> => s \in {p_a_y, p_x}
             /\ d = OntoK => s = InC
             \* the destination below a/y.md is tried for x.md, the file d/i
             \* for a/y.md
             /\ d = UnderY => (s = p_x /\ p_a_y \in {e.path : e \in docs})
             /\ block # {} => s = p_a_y
             \* the largest trees are for the pattern that matches them
             /\ ~Contains(s, <<"*">>) => Cardinality(docs) < MaxDocs
             \* the pattern for c is tried on the trees in which c holds the
             \* directory k.md, and a document or none
             /\ s = InC => (docs \subseteq {e \in DocPool : e.path = p_c_x} /\ old = {})
             /\ fs = Tree(docs \cup images \cup old \cup block,
                          FixedDirs \cup (IF s = InC THEN {p_c_k} ELSE {}), locked)
             /\ src = s
             /\ dest = d
       \* the moves that empty the working directory
       \/ /\ fs \in LonePool
          /\ src = p_x
          /\ dest \in OutPool
    /\ pc = "start"
    /\ mdFiles = <<>>
    /\ dirs = {}
    /\ keys = <<>>
    /\ idx = 1
    /\ ci = 1
    /\ err = <<>>
    /\ log = <<>>
    /\ fs0 = fs
    /\ parsed = <<>>
    /\ fsPre = fs
    /\ fsMoved = fs
    /\ last = NoFile

\* mv, lines 226-234: findFiles, parseFiles, cleanupList
Found(r) ==
    IF r.err # NoError
    THEN /\ err' = <<r.err>>
         /\ pc' = "done"
         /\ UNCHANGED <<mdFiles, dirs, log, parsed>>
    ELSE /\ mdFiles' = parseFiles(fs, r.files)
         /\ parsed' = mdFiles'
         /\ dirs' = cleanupList(mdFiles')
         /\ log' = log \o parseLog(fs, r.files)
         /\ pc' = "plan"
         /\ UNCHANGED err

FindAndParse ==
    /\ pc = "start"
    /\ Found(findFiles(fs, src))
    /\ UNCHANGED <<fs, src, dest, keys, idx, ci, fs0, fsPre, fsMoved, last>>

\* a variant of the choice below that looks for the directory first
StrategyDirFirst(f, mds, d, tpl) ==
    IF Len(mds) = 0 THEN errNoFilesToMove
    ELSE IF isDir(f, d) THEN "directory"
    ELSE IF tpl = "wrong" THEN errWrongTemplate
    ELSE IF tpl = "yes" THEN "template"
    ELSE IF Len(mds) > 1 THEN errMoveMultiple
    ELSE "literal"

\* a variant of the choice below without the check of the number of files
StrategyFirst(f, mds, d, tpl) ==
    IF Len(mds) = 0 THEN errNoFilesToMove
    ELSE IF tpl = "wrong" THEN errWrongTemplate
    ELSE IF tpl = "yes" THEN "template"
    ELSE IF isDir(f, d) THEN "directory"
    ELSE "literal"

\* a variant of the choice below that looks for the placeholder only
StrategyLoose(f, mds, d, tpl) ==
    IF Len(mds) = 0 THEN errNoFilesToMove
    ELSE IF Contains(d, Placeholder) THEN "template"
    ELSE IF isDir(f, d) THEN "directory"
    ELSE IF Len(mds) > 1 THEN errMoveMultiple
    ELSE "literal"

\* the strategy moveFiles chooses, or the error it returns before any move
StrategyFor(f, mds, d, tpl) ==
    IF Len(mds) = 0 THEN errNoFilesToMove
    ELSE IF tpl = "wrong" THEN errWrongTemplate
    ELSE IF tpl = "yes" THEN "template"
    ELSE IF isDir(f, d) THEN "directory"
    ELSE IF Len(mds) > 1 THEN errMoveMultiple
    ELSE "literal"

Strategy(f, mds, d) ==
    StrategyFor(f, mds, d, isTemplate(d))

\* moveFiles up to its first loop
Planned(s) ==
    IF s \in {"template", "directory", "literal"}
    THEN pc' = s /\ UNCHANGED err
    ELSE pc' = "done" /\ err' = <<s>>

Plan ==
    /\ pc = "plan"
    /\ Planned(Strategy(fs, mdFiles, dest))
    /\ UNCHANGED <<fs, src, dest, mdFiles, dirs, keys, idx, ci, log,
                   fs0, parsed, fsPre, fsMoved, last>>

\* a variant of the step below in which the sweep runs after a failed move
AfterMoveSweep(r, wrap) ==
    /\ fs' = r.fs
    /\ log' = log \o r.log
    /\ mdFiles' = [mdFiles EXCEPT ![idx].Path = r.Path]
    /\ fsPre' = fs
    /\ last' = mdFiles[idx]
    /\ IF r.err # NoError
       THEN /\ err' = wrap \o <<r.err>>
            /\ pc' = "cleanup"
            /\ keys' = SortDesc(dirs)
            /\ fsMoved' = r.fs
            /\ UNCHANGED idx
       ELSE IF idx < Len(mdFiles)
       THEN /\ idx' = idx + 1
            /\ UNCHANGED <<pc, err, keys, fsMoved>>
       ELSE /\ idx' = idx + 1
            /\ pc' = "cleanup"
            /\ keys' = SortDesc(dirs)
            /\ fsMoved' = r.fs
            /\ UNCHANGED err
    /\ UNCHANGED <<src, dest, dirs, ci, fs0, parsed>>

\* what one iteration of a loop of moveFiles leaves, r being the result of
\* the move of mdFiles[idx] and wrap the messages moveFiles wraps an error in
AfterMove(r, wrap) ==
    /\ fs' = r.fs
    /\ log' = log \o r.log
    /\ mdFiles' = [mdFiles EXCEPT ![idx].Path = r.Path]
    /\ fsPre' = fs
    /\ last' = mdFiles[idx]
    /\ IF r.err # NoError
       THEN /\ err' = wrap \o <<r.err>>
            /\ pc' = "done"
            /\ UNCHANGED <<idx, keys, fsMoved>>
       ELSE IF idx < Len(mdFiles)
       THEN /\ idx' = idx + 1
            /\ UNCHANGED <<pc, err, keys, fsMoved>>
       ELSE /\ idx' = idx + 1
            /\ pc' = "cleanup"
            /\ keys' = SortDesc(dirs)
            /\ fsMoved' = r.fs
            /\ UNCHANGED err
    /\ UNCHANGED <<src, dest, dirs, ci, fs0, parsed>>

\* moveFiles, lines 322-330: file.Move(replaceTemplates(dest, file.Title))
MoveTemplate ==
    /\ pc = "template"
    /\ AfterMove(Move(fs, mdFiles[idx], replaceTemplates(dest, mdFiles[idx].Title)), <<>>)

\* moveFiles, lines 332-340: file.MoveToDir(dest)
MoveDirectory ==
    /\ pc = "directory"
    /\ AfterMove(MoveToDir(fs, mdFiles[idx], dest), <<>>)

\* moveFiles, lines 346-349: files[0].Move(dest)
MoveLiteral ==
    /\ pc = "literal"
    /\ AfterMove(Move(fs, mdFiles[idx], dest), <<errMoveAFile>>)

\* a variant of the iteration below with the test of emptiness inverted
CleanDirInverted(f, dir) ==
    IF DirExists(f, dir) /\ ~IsEmpty(f, dir) THEN Remove(f, dir)
    ELSE [ok |-> TRUE, fs |-> f]

\* a variant of the iteration below that removes the directory with all it
\* holds, empty or not
CleanDirAll(f, dir) ==
    IF DirExists(f, dir)
    THEN [ok |-> TRUE,
          fs |-> [files  |-> [q \in {r \in DOMAIN f.files : ~IsUnder(r, Resolve(f, dir).key)}
                                |-> f.files[q]],
                  dirs   |-> {q \in f.dirs : ~Moved(q, Resolve(f, dir).key)},
                  locked |-> {q \in f.locked : ~IsUnder(q, Resolve(f, dir).key)},
                  cwd    |-> f.cwd,
                  gone   |-> f.gone]]
    ELSE [ok |-> TRUE, fs |-> f]

\* one iteration of the loop of cleanUp over the sorted keys: the
\* filesystem, and whether Remove succeeded
CleanDir(f, dir) ==
    IF DirExists(f, dir) /\ IsEmpty(f, dir) THEN Remove(f, dir)
    ELSE [ok |-> TRUE, fs |-> f]

Cleaned(r) ==
    /\ fs' = r.fs
    /\ IF ~r.ok
       THEN err' = <<errCleanUp>> /\ pc' = "done" /\ ci' = ci
       ELSE /\ ci' = ci + 1
            /\ pc' = IF ci = Len(keys) THEN "done" ELSE "cleanup"
            /\ UNCHANGED err

CleanUpStep ==
    /\ pc = "cleanup"
    /\ Cleaned(CleanDir(fs, keys[ci]))
    /\ UNCHANGED <<src, dest, mdFiles, dirs, keys, idx, log,
                   fs0, parsed, fsPre, fsMoved, last>>

Next ==
    \/ FindAndParse
    \/ Plan
    \/ MoveTemplate
    \/ MoveDirectory
    \/ MoveLiteral
    \/ CleanUpStep

Spec ==
    Init /\ [][Next]_vars

\* ------------------------------------------------------------------------
\* internal/file.go: the scan loop of NewFile as a state machine
\* ------------------------------------------------------------------------

\* the most lines of the file that is parsed
MaxLines ==
    3

\* the lines the file may hold: headings of two levels, a '#' without text,
\* a line of text, an image, a heading with an image, two images
LinePool ==
    { Heading(<<"T">>),
      <<"#">> \o Heading(<<"U">>),
      <<"#">>,
      <<"r">>,
      Image(r_q),
      Heading(<<"V">>) \o <<" ">> \o Image(r_i_p),
      Image(r_q) \o <<" ">> \o Image(r_i_p) }

LineSeqs ==
    UNION {[1..n -> LinePool] : n \in 0..MaxLines}

\* NewFile(fs, "x.md") has opened the file: title and attachments are empty
\* and the scanner is before the first line.  mdFiles[1] holds title and
\* attachments, idx is the line scanner.Scan() yields next.
InitParse ==
    /\ \E lines \in LineSeqs :
          fs = Tree({[path |-> p_x, lines |-> lines]}, {}, {})
    /\ src = p_x
    /\ dest = <<"d">>
    /\ pc = "scan"
    /\ mdFiles = <<NoFile>>
    /\ dirs = {}
    /\ keys = <<>>
    /\ idx = 1
    /\ ci = 1
    /\ err = <<>>
    /\ log = <<>>
    /\ fs0 = fs
    /\ parsed = <<>>
    /\ fsPre = fs
    /\ fsMoved = fs
    /\ last = NoFile

\* NewFile, lines 45-53: one iteration of the loop over scanner.Scan()
ScanStep ==
    /\ pc = "scan"
    /\ idx <= Len(Lines(fs, src))
    /\ mdFiles' = <<FileOf(<<>>, ScanLines(<<Lines(fs, src)[idx]>>,
                                          mdFiles[1].Title, mdFiles[1].Attachments))>>
    /\ idx' = idx + 1
    /\ UNCHANGED << fs, src, dest, pc, dirs, keys, ci, err, log, fs0, parsed, fsPre, fsMoved, last >>

\* NewFile, lines 55-61: the loop has ended and the File is returned
ScanEnd ==
    /\ pc = "scan"
    /\ idx > Len(Lines(fs, src))
    /\ mdFiles' = <<FileOf(src, mdFiles[1])>>
    /\ pc' = "parsed"
    /\ UNCHANGED << fs, src, dest, dirs, keys, idx, ci, err, log, fs0, parsed, fsPre, fsMoved, last >>

NextParse ==
    \/ ScanStep
    \/ ScanEnd

SpecParse ==
    InitParse /\ [][NextParse]_vars

\* ------------------------------------------------------------------------
\* Properties
\* ------------------------------------------------------------------------

Success ==
    pc = "done" /\ err = <<>>

HasFile(f, p) ==
    StatKind(f, p) = "file"

Content(f, p) ==
    f.files[Resolve(f, p).key]

\* the source names one file: it is no directory and holds no wildcard
SingleFile ==
    ~isDir(fs0, src) /\ ~Contains(src, <<"*">>)

\* the strategy moveFiles applies to the batch
StrategyOf ==
    Strategy(fs0, mdFiles, dest)

\* a File has been moved and its move returned no error
JustMoved ==
    last # NoFile /\ err = <<>>

\* the path the last File was to be renamed to, and the directories it was
\* moved from and to
LastDest ==
    IF StrategyOf = "directory"
    THEN UniqueDest(fsPre, last, dest).dest
    ELSE replaceTemplates(dest, last.Title)

OldDir ==
    Dir(last.Path)

NewDir ==
    IF StrategyOf = "directory" THEN dest ELSE Dir(LastDest)

\* the attachment references of the last File whose file existed before its move
LastAttached ==
    {j \in DOMAIN last.Attachments : HasFile(fsPre, Join(OldDir, last.Attachments[j]))}

\* C1: after mv(A, B) has returned success for a single-file source A and a
\* literal destination B (no '%', no existing directory), no file exists at
\* A, a file exists at B, and it has the content A had before the call.
C1_LiteralMove ==
    (Success /\ SingleFile /\ StrategyOf = "literal")
    => /\ ~ExistsOk(fs, src)
       /\ HasFile(fs, dest)
       /\ Content(fs, dest) = Content(fs0, src)

\* C1 happens: a file with an attachment has been moved to a literal path in
\* another directory
C1_Witness ==
    /\ Success /\ SingleFile /\ StrategyOf = "literal"
    /\ Dir(src) # Dir(dest)
    /\ LastAttached # {}

\* C2: after a document has been moved (literal, template or directory move)
\* to a directory other than its own, every attachment it references that
\* existed before the move exists at <new-dir>/<reference> and no longer
\* exists at <old-dir>/<reference>.
C2_AttachmentsFollow ==
    (JustMoved /\ Abs(NewDir) # Abs(OldDir))
    => \A j \in LastAttached :
          /\ HasFile(fs, Join(NewDir, last.Attachments[j]))
          /\ ~ExistsOk(fs, Join(OldDir, last.Attachments[j]))

\* C2 happens: a document with two attachments on disk has been moved to
\* another directory
C2_Witness ==
    /\ JustMoved /\ Abs(NewDir) # Abs(OldDir)
    /\ Cardinality(LastAttached) = 2

\* no regular file is left under directory d after the moves, and every
\* directory under it is one cleanUp looks at
LeftEmpty(d) ==
    /\ \A q \in DOMAIN fsMoved.files : ~IsUnder(q, Abs(d))
    /\ \A q \in fsMoved.dirs : IsUnder(q, Abs(d)) => q \in dirs

\* C3: source and destination are directories and mv has returned success:
\* every document of the batch is in the destination directory with the
\* content it had, every attachment that existed is at
\* <destination>/<reference> with the content it had, and the source
\* directory is gone if the moves left it empty.
C3_DirectoryToDirectory ==
    (Success /\ isDir(fs0, src) /\ StrategyOf = "directory")
    => /\ \A i \in DOMAIN mdFiles :
            \E q \in DOMAIN fs.files :
                /\ Dir(q) = Abs(dest)
                /\ fs.files[q] = Content(fs0, mdFiles[i].Path)
       /\ \A i \in DOMAIN mdFiles : \A j \in DOMAIN mdFiles[i].Attachments :
            HasFile(fs0, Join(Dir(mdFiles[i].Path), mdFiles[i].Attachments[j]))
            => /\ HasFile(fs, Join(dest, mdFiles[i].Attachments[j]))
               /\ Content(fs, Join(dest, mdFiles[i].Attachments[j]))
                  = Content(fs0, Join(Dir(mdFiles[i].Path), mdFiles[i].Attachments[j]))
       /\ LeftEmpty(src) => ~DirExists(fs, src)

\* C3 happens: two documents and their attachments have been moved out of
\* the source directory, which has been removed
C3_Witness ==
    /\ Success /\ isDir(fs0, src) /\ StrategyOf = "directory"
    /\ Len(mdFiles) = 2
    /\ \E i \in DOMAIN mdFiles : \E j \in DOMAIN mdFiles[i].Attachments :
          HasFile(fs0, Join(Dir(mdFiles[i].Path), mdFiles[i].Attachments[j]))
    /\ ~DirExists(fs, src)

\* the source holds a wildcard: findFiles takes it for a glob pattern
GlobSource ==
    Contains(src, <<"*">>)

\* the directories cleanUp looks at
Candidates ==
    {Abs(d) : d \in dirs}

SourceDirs ==
    {Abs(Dir(mdFiles[i].Path)) : i \in DOMAIN mdFiles}

\* every candidate directory that is empty after the moves has been removed
EmptyRemoved ==
    \A d \in Candidates :
        (d \in fsMoved.dirs /\ EntriesNorm(fsMoved, d) = {}) => d \notin fs.dirs

\* directory d, not empty after the moves, is gone although it did not hold
\* only candidate directories that have been removed
WronglyRemoved(d) ==
    /\ d \notin fs.dirs
    /\ ~ /\ d \in Candidates
         /\ \A e \in EntriesNorm(fsMoved, d) :
               e \in fsMoved.dirs /\ e \in Candidates /\ e \notin fs.dirs

\* C4 as stated: after a successful move of a glob source into an existing
\* directory, every candidate directory that is empty after the moves has
\* been removed and every directory that is not empty after the moves still
\* exists.
C4_AsStated ==
    (Success /\ GlobSource /\ StrategyOf = "directory")
    => /\ EmptyRemoved
       /\ \A d \in fsMoved.dirs : EntriesNorm(fsMoved, d) # {} => d \in fs.dirs

\* C4: after a successful move of a glob source into an existing directory,
\* every candidate directory that is empty after the moves has been removed,
\* and a directory that is not empty after the moves still exists unless it
\* is a candidate that held nothing but candidate directories the sweep removed.
C4_Cleanup ==
    (Success /\ GlobSource /\ StrategyOf = "directory")
    => /\ EmptyRemoved
       /\ \A d \in fsMoved.dirs : EntriesNorm(fsMoved, d) # {} => ~WronglyRemoved(d)

\* C4 happens: documents of several directories have been moved; a candidate
\* that held only an emptied attachment directory is gone, and a candidate
\* that still holds a file is there
C4_Witness ==
    /\ Success /\ GlobSource /\ StrategyOf = "directory"
    /\ Cardinality(SourceDirs) >= 2
    /\ \E d \in Candidates :
          d \in fsMoved.dirs /\ EntriesNorm(fsMoved, d) # {} /\ d \notin fs.dirs
    /\ \E d \in Candidates \ {Abs(dest)} :
          d \in fs.dirs /\ \E q \in DOMAIN fs.files : Dir(q) = d

\* the name the claim gives the n-th document that collides
NumberedName(name, n) ==
    IF n = 0 THEN name
    ELSE TrimSuffix(name, Ext(name)) \o <<"_">> \o Itoa(n) \o Ext(name)

\* the batch is k >= 2 documents of one base filename, moved into a
\* directory that held neither that name nor one of its numbered names
SameNameBatch ==
    /\ Success /\ StrategyOf = "directory"
    /\ Len(mdFiles) >= 2
    /\ \A i \in DOMAIN mdFiles : Base(mdFiles[i].Path) = Base(mdFiles[1].Path)
    /\ \A i \in DOMAIN mdFiles :
          ~ExistsOk(fs0, Join(dest, NumberedName(Base(mdFiles[1].Path), i - 1)))

\* document i is in the destination under the name numbered i - 1
NumberedInOrder ==
    \A i \in DOMAIN mdFiles :
        /\ HasFile(fs, Join(dest, NumberedName(Base(mdFiles[1].Path), i - 1)))
        /\ Content(fs, Join(dest, NumberedName(Base(mdFiles[1].Path), i - 1)))
           = Content(fs0, mdFiles[i].Path)

CollisionWarnings ==
    Cardinality({n \in DOMAIN log : log[n].kind = WarnSameName})

\* C5 as stated: k documents of the same base filename end as name.ext,
\* name_1.ext, ..., name_(k-1).ext in encounter order, and exactly one
\* collision warning is logged for the whole batch.
C5_AsStated ==
    SameNameBatch => (NumberedInOrder /\ CollisionWarnings = 1)

\* C5: k documents of the same base filename end as name.ext, name_1.ext,
\* ..., name_(k-1).ext in encounter order, and one collision warning is
\* logged for each document after the first: k - 1 warnings.
C5_Collisions ==
    SameNameBatch => (NumberedInOrder /\ CollisionWarnings = Len(mdFiles) - 1)

\* C5 happens: three documents of one name have been moved into a directory
C5_Witness ==
    SameNameBatch /\ Len(mdFiles) = 3

\* C6: a batch of two or more documents and a destination without '%' that
\* names no existing directory: mv returns the ambiguous-destination error
\* and nothing has been renamed, created or removed.
C6_Ambiguous ==
    (pc = "done" /\ Len(mdFiles) >= 2
        /\ isTemplate(dest) = "no" /\ ~isDir(fs0, dest))
    => (err = <<errMoveMultiple>> /\ fs = fs0)

\* C6 happens: mv has returned for two documents and a literal destination
C6_Witness ==
    /\ pc = "done" /\ Len(mdFiles) >= 2
    /\ isTemplate(dest) = "no" /\ ~isDir(fs0, dest)
    /\ err = <<errMoveMultiple>>

\* C7: a non-empty batch and a destination with '%' but without '%title%':
\* mv returns the incorrect-template error and nothing has been renamed,
\* created or removed.
C7_WrongTemplate ==
    (pc = "done" /\ mdFiles # <<>>
        /\ Contains(dest, <<"%">>) /\ ~Contains(dest, Placeholder))
    => (err = <<errWrongTemplate>> /\ fs = fs0)

\* C7 happens: mv has returned for a document and such a destination
C7_Witness ==
    /\ pc = "done" /\ mdFiles # <<>>
    /\ Contains(dest, <<"%">>) /\ ~Contains(dest, Placeholder)
    /\ err = <<errWrongTemplate>>

\* the number of path separators of a path
Separators(path) ==
    Cardinality({n \in DOMAIN path : path[n] = "/"})

\* C8: after a document has been moved to a template destination, it is at
\* the destination with %title% replaced by its title (each '/' of the title
\* replaced by '_', so that the title adds no path element), that path holds
\* no %title%, and its attachments are under the directory of that path.
C8_Template ==
    (JustMoved /\ StrategyOf = "template")
    => /\ HasFile(fs, LastDest)
       /\ Content(fs, LastDest) = Content(fsPre, last.Path)
       /\ Separators(LastDest) = Separators(dest)
       /\ ~Contains(LastDest, Placeholder)
       /\ Abs(NewDir) # Abs(OldDir)
          => \A j \in LastAttached : HasFile(fs, Join(NewDir, last.Attachments[j]))

\* path p names the same thing in f and in g
Unchanged(f, g, p) ==
    /\ StatKind(f, p) = StatKind(g, p)
    /\ HasFile(f, p) => Content(f, p) = Content(g, p)

\* the attachment references of the last File whose file did not exist
\* before its move
LastMissing ==
    {j \in DOMAIN last.Attachments : MissingOk(fsPre, Join(OldDir, last.Attachments[j]))}

\* an attachment of the last File that existed cannot be given its
\* directory in the destination: a regular file is in the way
Obstructed ==
    \E j \in LastAttached :
        StatKind(fsPre, Dir(Join(dest, last.Attachments[j]))) \in {"file", "notdir"}

\* C9: in a directory move of a document with a missing attachment, the
\* file is in the destination directory and nothing is moved for the missing
\* attachment; the move returns no error, unless the directory of an
\* attachment that exists cannot be made, and then the warning "attachment
\* is missing" is logged for the attachment, the attachments that exist are
\* moved, and mv returns success.
C9_MissingAttachment ==
    (last # NoFile /\ StrategyOf = "directory" /\ LastMissing # {})
    => /\ HasFile(fs, LastDest)
       /\ Dir(LastDest) = Clean(dest)
       /\ Content(fs, LastDest) = Content(fsPre, last.Path)
       /\ \A j \in LastMissing :
             Unchanged(fsPre, fs, Join(dest, last.Attachments[j]))
       /\ err = <<>> \/ (Obstructed /\ err \in {<<errCreateDir>>, <<errNotDir>>})
       /\ err = <<>>
          => /\ \A j \in LastMissing : \E n \in DOMAIN log :
                   log[n] = LogLine(WarnMissing, Join(OldDir, last.Attachments[j]))
             /\ \A j \in LastAttached : HasFile(fs, Join(dest, last.Attachments[j]))

\* C9 happens: mv has returned success after a directory move of a document
\* whose first attachment was missing and whose second one was moved
C9_Witness ==
    /\ Success /\ last # NoFile /\ StrategyOf = "directory"
    /\ Abs(dest) # Abs(OldDir)
    /\ 1 \in LastMissing /\ 2 \in LastAttached

\* the batch as parseFiles built it, before any move
Batch0 ==
    parsed

\* mv has returned the error of a failed rename
RenameFailed ==
    err # <<>> /\ err[Len(err)] \in RenameErrors

\* the rename that failed was the rename of an attachment
AttachmentFailed ==
    err # <<>> /\ err[Len(err)] \in {errMoveAttachment, errMoveAnAttachment}

\* C10: when a rename has failed, mv has returned an error; the documents
\* after the failing one are where they were; the documents before it are
\* moved; if the rename of an attachment failed, the primary file of the
\* failing document is at its destination, the attachments before the
\* failing one are moved and the attachments after it are where they were;
\* if the rename of the primary file failed, no file has changed since the
\* document before it.
C10_NoRollback ==
    RenameFailed
    => /\ pc = "done"
       /\ \A i \in DOMAIN mdFiles :
             i > idx => /\ HasFile(fs, mdFiles[i].Path)
                        /\ Unchanged(fs0, fs, mdFiles[i].Path)
       /\ \A i \in DOMAIN mdFiles :
             i < idx => /\ ~HasFile(fs, Batch0[i].Path)
                        /\ HasFile(fs, replaceTemplates(dest, Batch0[i].Title))
       /\ AttachmentFailed
          => /\ HasFile(fs, LastDest)
             /\ Content(fs, LastDest) = Content(fsPre, last.Path)
             /\ ~HasFile(fs, last.Path)
             /\ \A j \in LastAttached :
                   /\ (\A n \in 1..j : n \in LastAttached)
                      => /\ HasFile(fs, Join(NewDir, last.Attachments[j]))
                         /\ ~ExistsOk(fs, Join(OldDir, last.Attachments[j]))
                   /\ (\E n \in 1..j : n \in LastMissing)
                      => /\ Unchanged(fsPre, fs, Join(OldDir, last.Attachments[j]))
                         /\ Unchanged(fsPre, fs, Join(NewDir, last.Attachments[j]))
       /\ ~AttachmentFailed => fs.files = fsPre.files

\* C10 happens: the rename of an attachment of the second of three documents
\* has failed
C10_Witness ==
    /\ RenameFailed /\ AttachmentFailed
    /\ idx = 2 /\ Len(mdFiles) = 3

\* the last File was moved to a literal or template destination at which a
\* file existed
Overwrites ==
    /\ last # NoFile /\ StrategyOf \in {"literal", "template"}
    /\ HasFile(fsPre, LastDest)
    /\ Abs(LastDest) # Abs(last.Path)

\* beside the destination of the last File, the directory an attachment of it
\* goes to is a regular file, or lies below one
Blocked ==
    \E j \in DOMAIN last.Attachments :
        StatKind(fs, Dir(Join(Dir(LastDest), last.Attachments[j]))) \in {"file", "notdir"}

\* the directory of a destination could not be ensured
EnsureFailed ==
    err # <<>> /\ err[Len(err)] \in {errCreateDir, errNotDir}

\* C11: when a literal or template move finds a file at the destination, the
\* warning is logged, the collision does not fail the move (the only error
\* left is that of an attachment: its rename, or its directory where a
\* regular file is in the way), the destination holds the content of the
\* moved source, and the content that was there is gone.
C11_Overwrite ==
    Overwrites
    => /\ \E n \in DOMAIN log : log[n] = LogLine(WarnExists, Base(LastDest))
       /\ err = <<>> \/ AttachmentFailed \/ (Blocked /\ EnsureFailed)
       /\ HasFile(fs, LastDest)
       /\ Content(fs, LastDest) = Content(fsPre, last.Path)
       /\ \A q \in DOMAIN fs.files : fs.files[q] # Content(fsPre, LastDest)

\* C11 happens: in a template batch a document has been moved onto the file
\* an earlier document of the batch was moved to
C11_Witness ==
    /\ Overwrites /\ Success /\ StrategyOf = "template"
    /\ ~ExistsOk(fs0, LastDest)

\* the index in mdFiles of the File moved last
LastIndex ==
    IF err = <<>> \/ err = <<errCleanUp>> THEN idx - 1 ELSE idx

\* the rename of the primary file of the last File failed
PrimaryFailed ==
    RenameFailed /\ ~AttachmentFailed

\* C12: after a successful Move or MoveToDir the Path of the File is the
\* path at which its file now is; after a failed rename of the primary file
\* the Path is what it was.
C12_PathTracksFile ==
    /\ JustMoved
       => /\ Abs(mdFiles[LastIndex].Path) = Abs(LastDest)
          /\ HasFile(fs, mdFiles[LastIndex].Path)
    /\ (last # NoFile /\ PrimaryFailed)
       => mdFiles[LastIndex].Path = last.Path

\* directory a lies above directory d
AncestorOf(a, d) ==
    a # d /\ IsUnder(d, a)

\* the candidates cleanUp has evaluated
Evaluated ==
    {Abs(keys[n]) : n \in 1..(ci - 1)}

\* candidate d held, after the moves, empty candidate directories and
\* nothing else
HeldOnlyEmpty(d) ==
    /\ d \in fsMoved.dirs
    /\ EntriesNorm(fsMoved, d) # {}
    /\ \A e \in EntriesNorm(fsMoved, d) :
          e \in fsMoved.dirs /\ e \in Candidates /\ EntriesNorm(fsMoved, e) = {}

\* C13: cleanUp evaluates a candidate only after every candidate below it:
\* in the sorted keys no directory stands before a directory below it, and
\* when a candidate is evaluated the candidates below it have been
\* evaluated; hence, when mv has returned success, a candidate that held
\* only empty candidate directories after the moves has been removed.
C13_DeepestFirst ==
    /\ \A m \in DOMAIN keys : \A n \in DOMAIN keys :
          m < n => ~AncestorOf(Abs(keys[m]), Abs(keys[n]))
    /\ (pc = "cleanup" /\ ci \in DOMAIN keys)
       => \A d \in Candidates :
             AncestorOf(Abs(keys[ci]), d) => d \in Evaluated
    /\ Success => \A d \in Candidates : HeldOnlyEmpty(d) => d \notin fs.dirs

\* the move phase has ended with an error
MoveFailed ==
    pc = "done" /\ err # <<>> /\ err # <<errCleanUp>> /\ mdFiles # <<>>

\* the directories of the tree mv was called with, but for a directory that
\* is itself moved as a File of the batch
NotRenamed ==
    fs0.dirs \ {Abs(Batch0[i].Path) : i \in DOMAIN Batch0}

\* C14: the candidate set is computed from the batch as parsed, before any
\* rename; no directory is removed while documents are moved; when the move
\* phase has ended with an error the sweep has not run and every directory
\* is still there, emptied or not.
C14_CleanupAfterMoves ==
    /\ pc = "plan" => (fs = fs0 /\ dirs = cleanupList(mdFiles))
    /\ pc # "start" => dirs = cleanupList(Batch0)
    /\ pc \in {"plan", "template", "directory", "literal"}
       => (NotRenamed \subseteq fs.dirs /\ ci = 1)
    /\ MoveFailed => (NotRenamed \subseteq fs.dirs /\ ci = 1)

\* C14 happens: a rename has failed after the renames of an earlier document
\* emptied a candidate directory, which is still there
C14_Witness ==
    /\ MoveFailed /\ RenameFailed
    /\ idx > 1
    /\ \E d \in Candidates :
          /\ d \in fs.dirs /\ EntriesNorm(fs, d) = {}
          /\ EntriesNorm(fs0, d) # {}

\* the strategy in the order the claim gives, read from the arguments of mv
\* and the batch as parsed
ClaimedStrategy ==
    IF Batch0 = <<>> THEN errNoFilesToMove
    ELSE IF Contains(dest, <<"%">>)
    THEN (IF Contains(dest, Placeholder) THEN "template" ELSE errWrongTemplate)
    ELSE IF isDir(fs0, dest) THEN "directory"
    ELSE "literal"

\* moveFiles has been called and mv has returned
Returned ==
    pc = "done" /\ err # <<errNoFilesFound>>

\* File i of the batch lies in directory d: a file with its content or, for
\* a path that named a directory, a directory with its name
LiesIn(i, d) ==
    IF HasFile(fs0, Batch0[i].Path)
    THEN \E q \in DOMAIN fs.files :
            Dir(q) = Abs(d) /\ fs.files[q] = Content(fs0, Batch0[i].Path)
    ELSE isDir(fs, Join(d, Base(Batch0[i].Path)))

\* C15: (1) an empty batch gives "no files to move" whatever the destination
\* is; (2) a destination with '%' is a template, or the template error, also
\* when a directory of that name exists; (3) otherwise an existing directory
\* gives a directory move of every document; (4) otherwise the destination
\* is a literal path; and the loop that runs is that of this one strategy.
C15_StrategyOrder ==
    /\ pc \in {"template", "directory", "literal"} => pc = ClaimedStrategy
    /\ (Returned /\ ClaimedStrategy \in {errNoFilesToMove, errWrongTemplate})
       => (err = <<ClaimedStrategy>> /\ fs = fs0 /\ last = NoFile)
    /\ (Returned /\ ClaimedStrategy = "literal" /\ Len(mdFiles) > 1)
       => err = <<errMoveMultiple>>
    /\ (JustMoved /\ ClaimedStrategy = "template")
       => ExistsOk(fs, replaceTemplates(dest, last.Title))
    /\ (JustMoved /\ ClaimedStrategy = "literal")
       => ExistsOk(fs, dest)
    /\ (Success /\ ClaimedStrategy = "directory")
       => \A i \in DOMAIN mdFiles : LiesIn(i, dest)

\* C15 happens: a document has been moved to a template destination although
\* a directory of the name of the template exists
C15_Witness ==
    /\ Success /\ JustMoved /\ ClaimedStrategy = "template"
    /\ isDir(fs0, dest)
    /\ ~HasFile(fs0, replaceTemplates(dest, last.Title))

\* the paths findFiles returns
Matched ==
    findFiles(fs0, src).files

\* a path that can be opened and read: a regular file that is not locked
Readable(p) ==
    CanOpen(fs0, p) /\ HasFile(fs0, p)

\* the matched paths that cannot be opened or read
Unreadable ==
    {Matched[n] : n \in {m \in DOMAIN Matched : ~Readable(Matched[m])}}

\* C16: a matched file that cannot be opened or read is dropped with a
\* logged line and is left where it is; the batch is the one parseFiles
\* builds from the readable files alone; mv fails with "no files to move"
\* exactly when no document remains, and then the filesystem is unchanged;
\* otherwise the loop of the move runs over the remaining documents.
C16_Unreadable ==
    (pc # "start" /\ err # <<errNoFilesFound>>)
    => /\ Batch0 = parseFiles(fs0, SelectSeq(Matched, Readable))
       /\ \A p \in Unreadable : \E n \in DOMAIN log : log[n] = LogLine(LogSkipping, p)
       /\ \A p \in Unreadable : Unchanged(fs0, fs, p)
       /\ pc = "done"
          => /\ (SelectSeq(Matched, Readable) = <<>>) <=> (err = <<errNoFilesToMove>>)
             /\ err = <<errNoFilesToMove>> => fs = fs0
       /\ Success => idx = Len(SelectSeq(Matched, Readable)) + 1

\* the stem the claim keeps: a name without its extension, less one trailing
\* group of an underscore and digits
ClaimedStem(s) ==
    IF StripDigits(s) # s /\ StripDigits(s) # <<>> /\ StripDigits(s)[Len(StripDigits(s))] = "_"
    THEN SubSeq(StripDigits(s), 1, Len(StripDigits(s)) - 1)
    ELSE s

\* <stem>_<i><ext> in directory dir for the smallest i >= n that is free
RECURSIVE ClaimedFrom(_, _, _, _, _)
ClaimedFrom(f, dir, stem, ext, n) ==
    IF ExistsOk(f, Join(dir, stem \o <<"_">> \o Itoa(n) \o ext))
    THEN ClaimedFrom(f, dir, stem, ext, n + 1)
    ELSE Join(dir, stem \o <<"_">> \o Itoa(n) \o ext)

\* the name the claim gives a file called name that is moved into dir
ClaimedName(f, dir, name) ==
    IF ~ExistsOk(f, Join(dir, name))
    THEN Join(dir, name)
    ELSE ClaimedFrom(f, dir, ClaimedStem(TrimSuffix(name, Ext(name))), Ext(name), 1)

\* C17: a document moved by a directory move out of another directory is
\* renamed to its own base
\* filename in the destination directory when nothing of that name exists
\* there, and otherwise to <stem>_<i><ext> with the source extension, the
\* source stem less a trailing _<digits> group and otherwise as written, and
\* the smallest positive i that is free.
C17_UniqueName ==
    (JustMoved /\ StrategyOf = "directory" /\ HasFile(fsPre, last.Path)
        /\ Abs(OldDir) # Abs(dest))
    => /\ LastDest = ClaimedName(fsPre, dest, Base(last.Path))
       /\ HasFile(fs, ClaimedName(fsPre, dest, Base(last.Path)))

\* a source file has been moved to a literal path in the directory it was in
SameDirMove ==
    /\ last # NoFile /\ StrategyOf = "literal"
    /\ HasFile(fs0, last.Path)
    /\ pc \in {"cleanup", "done"}
    /\ Dir(last.Path) = Dir(dest)

\* C18: a move to a literal path in the directory of the source renames the
\* primary file only: no rename of an attachment is tried, and after a move
\* that returned no error every attachment and every other file is where it
\* was with its content, the file is at the destination with its content
\* and, unless that is its own path, no longer at its path, and the
\* directories are those that existed before.
C18_SameDirectory ==
    SameDirMove
    => /\ ~AttachmentFailed
       /\ err = <<>>
          => /\ fs.dirs = fs0.dirs
             /\ \A j \in DOMAIN last.Attachments :
                   Unchanged(fs0, fs, Join(OldDir, last.Attachments[j]))
             /\ \A q \in DOMAIN fs0.files :
                   q \notin {Abs(last.Path), Abs(dest)} => Unchanged(fs0, fs, q)
             /\ DOMAIN fs.files \subseteq DOMAIN fs0.files \cup {Abs(dest)}
             /\ HasFile(fs, dest)
             /\ Content(fs, dest) = Content(fs0, last.Path)
             /\ Abs(last.Path) # Abs(dest) => ~ExistsOk(fs, last.Path)

\* C18 happens: a document with two attachments on disk has been renamed in
\* its directory
C18_Witness ==
    /\ SameDirMove /\ Success
    /\ Abs(last.Path) # Abs(dest)
    /\ Cardinality(LastAttached) = 2

\* the lines of the parsed file the scan loop has seen
Scanned ==
    SubSeq(Lines(fs, p_x), 1, idx - 1)

\* the lines seen that hold a heading: '#' followed by text
HeadingLines ==
    {n \in DOMAIN Scanned : TitleOf(Scanned[n]) # <<>>}

\* the targets of the inline image references ![alt](target) of a line, from
\* left to right
RECURSIVE TargetsFrom(_, _)
RECURSIVE TargetsAlt(_, _)
RECURSIVE TargetsEnd(_, _)
TargetsFrom(line, bang) ==
    IF bang = 0 THEN <<>>
    ELSE TargetsAlt(Tail2(line, bang + 2), Index(Tail2(line, bang + 2), <<"]", "(">>))

TargetsAlt(rest, k) ==
    IF k = 0 THEN <<>>
    ELSE TargetsEnd(Tail2(rest, k + 2), Index(Tail2(rest, k + 2), <<")">>))

TargetsEnd(target, e) ==
    IF e = 0 THEN <<>>
    ELSE (IF e = 1 THEN <<>> ELSE <<SubSeq(target, 1, e - 1)>>)
         \o TargetsFrom(Tail2(target, e + 1), Index(Tail2(target, e + 1), <<"!", "[">>))

ImageTargets(line) ==
    TargetsFrom(line, Index(line, <<"!", "[">>))

RECURSIVE AllTargets(_)
AllTargets(lines) ==
    IF lines = <<>> THEN <<>>
    ELSE ImageTargets(Head(lines)) \o AllTargets(Tail(lines))

\* C19: while NewFile scans the lines of a file, the title is that of the
\* first line seen that holds a heading, whatever its level and whatever
\* follows, and is empty when none has been seen; the attachments are the
\* targets of all inline image references of the lines seen, in their order.
C19_Parse ==
    pc \in {"scan", "parsed"}
    => /\ mdFiles[1].Title =
            IF HeadingLines = {} THEN <<>>
            ELSE TitleOf(Scanned[MinOrZero(HeadingLines)])
       /\ mdFiles[1].Attachments = AllTargets(Scanned)

\* the Markdown files directory d holds in filesystem f
PrimaryIn(f, d) ==
    {q \in DOMAIN f.files : Dir(q) = Abs(d) /\ Ext(q) = <<".", "m", "d">>}

\* mv has moved a batch of regular files into an existing directory
DirectoryBatch ==
    /\ Success /\ StrategyOf = "directory"
    /\ \A i \in DOMAIN mdFiles : HasFile(fs0, mdFiles[i].Path)

\* C20: in a directory move the path a primary file is renamed to is one at
\* which nothing existed; after a successful batch every file the
\* destination directory held before is there with its content, every
\* document of the batch is there with its content, and the directory holds
\* as many primary files more than before as the batch has documents.
C20_NeverOverwrites ==
    /\ (JustMoved /\ StrategyOf = "directory") => ~ExistsOk(fsPre, LastDest)
    /\ DirectoryBatch
       => /\ \A q \in PrimaryIn(fs0, dest) :
                \E r \in PrimaryIn(fs, dest) : fs.files[r] = fs0.files[q]
          /\ \A i \in DOMAIN mdFiles : LiesIn(i, dest)
          /\ Cardinality(PrimaryIn(fs, dest))
             = Cardinality(PrimaryIn(fs0, dest)) + Len(mdFiles)

\* cleanUp has been called: the sweep runs or has run
Swept ==
    pc = "cleanup" \/ (pc = "done" /\ mdFiles # <<>> /\ err \in {<<>>, <<errCleanUp>>})

\* the paths the last File and its attachments were to be renamed to
RenameTargets ==
    {Abs(LastDest)}
    \cup {Abs(Join(NewDir, last.Attachments[j])) : j \in DOMAIN last.Attachments}

\* the directories the sweep has removed
Removed ==
    fsMoved.dirs \ fs.dirs

\* C21: mv removes nothing but empty directories of the candidate set.  The
\* moves remove no directory, and after the move of a File every file that
\* existed before it is where it was, or at a path the File or one of its
\* attachments was renamed to, or was at such a path and has been replaced
\* by the rename; the sweep changes no regular file, and every
\* directory it has removed is a candidate that held no file after the moves
\* and nothing but directories the sweep has removed too; the directory a
\* document has been moved to is there when mv returns success.
C21_RemovesOnlyEmptyCandidates ==
    /\ ~Swept => NotRenamed \subseteq fs.dirs
    /\ last = NoFile => fs.files = fs0.files
    /\ last # NoFile
       => \A q \in DOMAIN fsPre.files :
             \/ HasFile(fs, q) /\ fs.files[q] = fsPre.files[q]
             \/ \E r \in RenameTargets : HasFile(fs, r) /\ fs.files[r] = fsPre.files[q]
             \/ q \in RenameTargets
    /\ Swept
       => /\ fs.files = fsMoved.files
          /\ fs.locked = fsMoved.locked
          /\ fs.dirs \subseteq fsMoved.dirs
          /\ \A d \in Removed :
                /\ d \in Candidates
                /\ \A q \in DOMAIN fsMoved.files : ~IsUnder(q, d)
                /\ EntriesNorm(fsMoved, d) \subseteq Removed
    /\ (Success /\ JustMoved /\ HasFile(fs0, last.Path)) => DirExists(fs, NewDir)

\* C21 happens: after a move to a template destination whose directory was
\* created, the sweep has removed the emptied source directory and the
\* emptied directory of an attachment, and has left an empty directory that
\* is no candidate
C21_Witness ==
    /\ Success /\ StrategyOf = "template"
    /\ ~DirExists(fs0, NewDir)
    /\ Cardinality(Removed) >= 2
    /\ \E d \in fs.dirs : d \notin Candidates /\ EntriesNorm(fs, d) = {}

====
